---- MODULE Spec2Model ----
(***************************************************************************)
(* Model of the qwen-fast service (src/main.py, src/engine.py,             *)
(* src/video_concat.py): the in-memory job store, the background worker    *)
(* that serialises synthesis behind inference_lock, the status/download    *)
(* endpoints, the voice directory and the deferred folder deletion.        *)
(*                                                                         *)
(* Every action is one block of code that runs without suspension: either  *)
(* a stretch of a coroutine between two awaits on the asyncio event loop,  *)
(* or a step of a function running on an executor thread.                  *)
(***************************************************************************)
EXTENDS Integers, Sequences, FiniteSets, TLC

\* ---- bounds ------------------------------------------------------------
MaxJobs == 2        \* number of POST /generate calls explored
MaxVoices == 1      \* number of successful POST /voices/upload calls explored
MaxDownloads == 2   \* number of POST /videos/download calls explored
MaxConcats == 2     \* number of POST /videos/concat calls explored
MaxDays == 2        \* number of days the clock advances
MaxMerges == 1      \* number of POST /videos/merge calls explored

\* ---- values ------------------------------------------------------------
None == "None"

VOICE_DIR == <<"voices">>
OUTPUT_DIR == <<"output">>
FINAL_OUTPUT_DIR == <<"final_outputs">>

\* x-api-key header values a client may send (None: header absent)
Headers == {None, "secret", "wrong"}

\* uuid4() strings: one per call site and call, all distinct.  Two voice
\* uuids may share leading characters, as random hex strings do.
HexDigit == <<"1", "2", "3", "4">>
VoiceUuid(k) == <<"a", HexDigit[k]>>
WavUuid == <<"w1.wav", "w2.wav", "w3.wav", "w4.wav">>

\* voice_id values a client may send with POST /generate or DELETE /voices
VoiceIdInputs == {<<"a">>, <<"b">>}

\* file names a client may upload: none, unsupported, supported
UploadNames == {<<>>, <<"x", ".txt">>, <<"x", ".wav">>}
AudioExtensions == {".wav", ".mp3", ".flac", ".m4a"}

\* project_folder values a client may send; "" makes
\* os.path.join(OUTPUT_DIR, project_folder) the output directory itself
Projects == {"", "p"}

\* last path segment of the url a client may send
Basenames == {"a.mp4"}

\* video_path and audio_path a client may send to POST /videos/merge: files
\* of the output directory, by name
MergeVideos == {"p_final.mp4"}
MergeAudios == {"p_final.mp4", "w1.wav"}

\* the clock advances a day at a time
Day == 24 * 60 * 60

\* concat_videos: delay_seconds=2 * 24 * 60 * 60
delay_seconds == 2 * 24 * 60 * 60

\* The file names that occur in the output tree, in the order sorted()
\* puts them (code points: "." < digits < upper case < "_" < lower case).
\* A ULID is 10 characters of time stamp, most significant first, then 16
\* random characters: "0<day><random>" stands for one, with the days
\* counted from the day before the process started.
Ulids ==
    <<"00A", "00B", "01A", "01B", "02A", "02B", "03A", "03B", "04A", "04B">>
SortedNames ==
    <<"00A.mp4", "00A_a.mp4", "00B.mp4", "00B_a.mp4",
      "01A.mp4", "01A_a.mp4", "01B.mp4", "01B_a.mp4",
      "02A.mp4", "02A_a.mp4", "02B.mp4", "02B_a.mp4",
      "03A.mp4", "03A_a.mp4", "03B.mp4", "03B_a.mp4",
      "04A.mp4", "04A_a.mp4", "04B.mp4", "04B_a.mp4",
      "_final.mp4", "p_final.mp4",
      "w1.wav", "w2.wav", "w3.wav", "w4.wav">>
VIDEO_EXTENSIONS == {".mp4", ".mov", ".avi", ".mkv", ".webm", ".flv"}

\* str(e) of the exceptions the synthesis collaborator and soundfile raise
SynthError == "synthesis failed"
WriteError == "Error opening output file: System error."

VARIABLES
    API_KEY,          \* main.py:26  os.getenv("API_KEY")
    JOBS,             \* main.py:54  task_id -> [status, filename, error]
    tasks,            \* one process_generation_task coroutine per job:
                      \*   its position, its voice_id argument, the result
                      \*   of the executor future it awaits
    inference_lock,   \* main.py:49  asyncio.Lock()
    voices,           \* file names in VOICE_DIR
    uploads,          \* number of voice uuids drawn so far
    dirs,             \* directories existing under the output roots
    files,            \* files existing under the output roots
    timers,           \* started threading.Timer objects that have not fired
    now,              \* wall clock, seconds
    inflight,         \* video requests being served: downloads awaiting
                      \*   the remote server, concats on an executor thread
    requests,         \* number of video requests accepted, per kind
    resp,             \* the last HTTP exchange: request and response
    hist,             \* history: per job, the statuses it has had and
                      \*   whether the lock was held when each was set
    concatAt,         \* history: per project folder, the time of its
                      \*   latest successful concat (-1: none)
    overtaken         \* history: per downloaded file still present, the
                      \*   downloaded files that were in its folder when
                      \*   its download was requested and that sort after
                      \*   it (files with none are left out)

jobVars == <<JOBS, tasks, inference_lock, hist>>
voiceVars == <<voices, uploads>>
fsVars == <<dirs, files>>
videoVars == <<timers, inflight, requests, concatAt, overtaken>>

vars == <<API_KEY, jobVars, voiceVars, fsVars, videoVars, now, resp>>

\* ---- pure helpers ------------------------------------------------------
\* faulty variant of str.startswith: compares the lengths only
StartsWith_LengthOnly(s, p) == Len(p) <= Len(s)

\* str.startswith
StartsWith(s, p) == Len(p) <= Len(s) /\ SubSeq(s, 1, Len(p)) = p

\* os.path.join(dir, name) for a single path component
Join(dir, name) == Append(dir, name)

\* os.path.splitext(name)[1]
Extension(name) == IF Len(name) >= 2 THEN name[Len(name)] ELSE ""

\* req: the path parameter of the request (0 when it has none)
Response(op, req, code, body) ==
    [op |-> op, req |-> req, code |-> code, body |-> body]

\* ---- authentication ----------------------------------------------------
\* APIKeyHeader(auto_error=True) followed by get_api_key: the status code
\* the dependency lets the call proceed with (200) or aborts it with.
get_api_key(h) ==
    IF h = None THEN 403
    ELSE IF API_KEY # None /\ h = API_KEY THEN 200
    ELSE IF API_KEY = None THEN 500
    ELSE 403

\* dependencies=[Depends(get_api_key)]: the handler body runs only when the
\* dependency returns; otherwise the HTTPException is the whole response.
Depends(op, req, h, Handler) ==
    IF get_api_key(h) = 200
    THEN Handler
    ELSE /\ resp' = Response(op, req, get_api_key(h), [detail |-> "rejected"])
         /\ UNCHANGED <<API_KEY, now, jobVars, voiceVars, fsVars, videoVars>>

\* ---- asyncio.Lock ------------------------------------------------------
\* locked: _locked; waiters: the tasks whose futures sit in _waiters, in
\* FIFO order; notified: the future of the first waiter has its result set.

\* faulty variant: the lock is taken whether or not it is held
LockFree_Always(lock) == TRUE

\* Lock.acquire takes the lock without suspending
LockFree(lock) == ~lock.locked /\ lock.waiters = <<>>

\* faulty variant: an exit from the locked section that skips the release
Release_KeepLocked(lock) == lock

\* faulty variant: the release does not wake the first waiter
Release_NoWake(lock) ==
    [locked |-> FALSE, waiters |-> lock.waiters, notified |-> FALSE]

\* Lock.release: unlock and wake the first waiter
Release(lock) ==
    [locked |-> FALSE, waiters |-> lock.waiters,
     notified |-> lock.waiters # <<>>]

\* ---- job store helpers -------------------------------------------------
\* faulty variant: the worker never reports "processing"
MarkProcessing_Skipped(j) == JOBS

\* JOBS[task_id]["status"] = "processing"
MarkProcessing(j) == [JOBS EXCEPT ![j].status = "processing"]

\* faulty variant: a status outside the four defined ones
MarkCompleted_Typo(j, output_filename) ==
    [JOBS EXCEPT ![j].status = "complete", ![j].filename = output_filename]

\* faulty variant: the status is written without the filename
MarkCompleted_NoFilename(j, output_filename) ==
    [JOBS EXCEPT ![j].status = "completed"]

\* JOBS[task_id]["status"] = "completed"; ["filename"] = output_filename
MarkCompleted(j, output_filename) ==
    [JOBS EXCEPT ![j].status = "completed", ![j].filename = output_filename]

\* faulty variant: a failure is written to every job that is still queued
\* as well
MarkFailed_AllQueued(j, error) ==
    [k \in DOMAIN JOBS |->
        IF k = j \/ JOBS[k].status = "queued"
        THEN [JOBS[k] EXCEPT !.status = "failed", !.error = error]
        ELSE JOBS[k]]

\* JOBS[task_id]["status"] = "failed"; ["error"] = ...
MarkFailed(j, error) ==
    [JOBS EXCEPT ![j].status = "failed", ![j].error = error]

\* voice_id is read by the lookup at the start of the coroutine only; the
\* frame of a coroutine past that point is kept without it.
SetTask(j, pc, result) ==
    [tasks EXCEPT ![j] = [pc |-> pc, voice_id |-> None, result |-> result]]

\* history: job j now has the status it has in store, written with the
\* lock in state lk
Observe(j, store, lk) ==
    IF store[j].status = JOBS[j].status THEN hist
    ELSE [hist EXCEPT ![j] = Append(@, [status |-> store[j].status,
                                        locked |-> lk])]

TaskIds == 1..MaxJobs

\* ---- POST /generate ----------------------------------------------------
\* The handler body: the record is stored, the worker is queued with
\* background_tasks.add_task, the response is returned.
Submit(voice_id) ==
    LET task_id == Cardinality(DOMAIN JOBS) + 1 IN
    /\ JOBS' = JOBS @@ (task_id :> [status |-> "queued",
                                    filename |-> None, error |-> None])
    /\ tasks' = tasks @@ (task_id :> [pc |-> "scheduled",
                                      voice_id |-> voice_id,
                                      result |-> None])
    /\ hist' = hist @@ (task_id :>
                  << [status |-> "queued",
                      locked |-> inference_lock.locked] >>)
    /\ resp' = Response("generate", 0, 200,
                        [task_id |-> task_id, status |-> "queued"])
    /\ UNCHANGED <<API_KEY, inference_lock, now, voiceVars, fsVars,
                   videoVars>>

\* faulty variant: the submission waits for the lock to be free
generate_audio_AwaitsLock(h, voice_id) ==
    /\ Cardinality(DOMAIN JOBS) < MaxJobs
    /\ LockFree(inference_lock)
    /\ Depends("generate", 0, h, Submit(voice_id))

generate_audio(h, voice_id) ==
    /\ Cardinality(DOMAIN JOBS) < MaxJobs
    /\ Depends("generate", 0, h, Submit(voice_id))

\* ---- process_generation_task -------------------------------------------
\* From the start of the coroutine to its first suspension: the voice
\* lookup, and then either the early return, or the lock taken at once
\* (status "processing", inference handed to the executor), or the
\* coroutine parked in the lock's waiter queue.
TaskStart(j) ==
    /\ j \in DOMAIN tasks
    /\ tasks[j].pc = "scheduled"
    /\ LET matches == {f \in voices : StartsWith(f, tasks[j].voice_id)} IN
       IF matches = {}
       THEN /\ JOBS' = MarkFailed(j, "Voice ID not found")
            /\ tasks' = SetTask(j, "done", None)
            /\ UNCHANGED inference_lock
       ELSE IF LockFree(inference_lock)
       THEN /\ inference_lock' = [inference_lock EXCEPT !.locked = TRUE]
            /\ JOBS' = MarkProcessing(j)
            /\ tasks' = SetTask(j, "synth", None)
       ELSE /\ inference_lock' =
                  [inference_lock EXCEPT !.waiters = Append(@, j)]
            /\ tasks' = SetTask(j, "waiting", None)
            /\ UNCHANGED JOBS
    /\ hist' = Observe(j, JOBS', inference_lock'.locked)
    /\ UNCHANGED <<API_KEY, now, resp, voiceVars, fsVars, videoVars>>

\* The parked coroutine resumes once its future has a result: it leaves the
\* waiter queue, takes the lock, sets "processing" and awaits the executor.
TaskWake(j) ==
    /\ j \in DOMAIN tasks
    /\ tasks[j].pc = "waiting"
    /\ inference_lock.notified
    /\ Head(inference_lock.waiters) = j
    /\ inference_lock' = [locked |-> TRUE,
                          waiters |-> Tail(inference_lock.waiters),
                          notified |-> FALSE]
    /\ JOBS' = MarkProcessing(j)
    /\ tasks' = SetTask(j, "synth", None)
    /\ hist' = Observe(j, JOBS', inference_lock'.locked)
    /\ UNCHANGED <<API_KEY, now, resp, voiceVars, fsVars, videoVars>>

\* The executor future is done: the coroutine records the outcome and
\* leaves the "async with" block, which releases the lock.
TaskFinish(j) ==
    /\ j \in DOMAIN tasks
    /\ tasks[j].pc \in {"returned", "raised"}
    /\ IF tasks[j].pc = "returned"
       THEN JOBS' = MarkCompleted(j, tasks[j].result)
       ELSE JOBS' = MarkFailed(j, tasks[j].result)
    /\ inference_lock' = Release(inference_lock)
    /\ tasks' = SetTask(j, "done", tasks[j].result)
    /\ hist' = Observe(j, JOBS', inference_lock'.locked)
    /\ UNCHANGED <<API_KEY, now, resp, voiceVars, fsVars, videoVars>>

\* ---- QwenTTSEngine.clone_voice, on an executor thread -------------------
\* faulty variant: the lock is released as soon as the model call is over,
\* before the file is written
generate_voice_clone_Releases(j) ==
    /\ j \in DOMAIN tasks
    /\ tasks[j].pc = "synth"
    /\ \/ tasks' = SetTask(j, "write", None)
       \/ tasks' = SetTask(j, "raised", SynthError)
    /\ inference_lock' = Release(inference_lock)
    /\ UNCHANGED <<API_KEY, JOBS, now, resp, hist, voiceVars,
                   fsVars, videoVars>>

\* model.generate_voice_clone returns the waveform or raises.
generate_voice_clone(j) ==
    /\ j \in DOMAIN tasks
    /\ tasks[j].pc = "synth"
    /\ \/ tasks' = SetTask(j, "write", None)
       \/ tasks' = SetTask(j, "raised", SynthError)
    /\ UNCHANGED <<API_KEY, JOBS, inference_lock, now, resp, hist, voiceVars,
                   fsVars, videoVars>>

\* filename = f"{uuid.uuid4()}.wav"; sf.write(output_path, ...); return
sf_write(j) ==
    /\ j \in DOMAIN tasks
    /\ tasks[j].pc = "write"
    /\ LET filename == WavUuid[j] IN
       IF OUTPUT_DIR \in dirs
       THEN /\ files' = files \cup {Join(OUTPUT_DIR, filename)}
            /\ tasks' = SetTask(j, "returned", filename)
       ELSE /\ tasks' = SetTask(j, "raised", WriteError)
            /\ UNCHANGED files
    /\ UNCHANGED <<API_KEY, JOBS, inference_lock, dirs, now, resp, hist,
                   voiceVars, videoVars>>

\* ---- GET /status/{task_id} ---------------------------------------------
get_task_status(h, task_id) ==
    Depends("status", task_id, h,
      /\ IF task_id \notin DOMAIN JOBS
         THEN resp' = Response("status", task_id, 404,
                               [detail |-> "Task ID not found"])
         ELSE LET job == JOBS[task_id] IN
              resp' = Response("status", task_id, 200,
                [task_id |-> task_id,
                 status |-> job.status,
                 error |-> job.error,
                 download_url |-> IF job.status = "completed"
                                  THEN <<"download", task_id>> ELSE <<>>,
                 file_path |-> IF job.status = "completed"
                               THEN Join(OUTPUT_DIR, job.filename) ELSE <<>>])
      /\ UNCHANGED <<API_KEY, now, jobVars, voiceVars, fsVars, videoVars>>)

\* ---- GET /download/{task_id} -------------------------------------------
\* faulty variant: the file is served without the existence check
FileLost_Unchecked(task_id) == FALSE

\* not os.path.exists(os.path.join(OUTPUT_DIR, job["filename"]))
FileLost(task_id) == Join(OUTPUT_DIR, JOBS[task_id].filename) \notin files

download_audio_endpoint(h, task_id) ==
    Depends("download", task_id, h,
      /\ IF task_id \notin DOMAIN JOBS
         THEN resp' = Response("download", task_id, 404,
                               [detail |-> "Task ID not found"])
         ELSE IF JOBS[task_id].status # "completed"
         THEN resp' = Response("download", task_id, 400,
                               [detail |-> "Task not completed yet"])
         ELSE IF FileLost(task_id)
         THEN resp' = Response("download", task_id, 404,
                               [detail |-> "File lost on server"])
         ELSE resp' = Response("download", task_id, 200,
                  [path |-> Join(OUTPUT_DIR, JOBS[task_id].filename)])
      /\ UNCHANGED <<API_KEY, now, jobVars, voiceVars, fsVars, videoVars>>)

\* ---- POST /voices/upload -----------------------------------------------
upload_voice_sample(h, name) ==
    /\ uploads < MaxVoices
    /\ Depends("upload", 0, h,
         IF name = <<>>
         THEN /\ resp' = Response("upload", 0, 400,
                                  [detail |-> "Filename is required"])
              /\ UNCHANGED <<API_KEY, now, jobVars, voiceVars, fsVars, videoVars>>
         ELSE IF Extension(name) \notin AudioExtensions
         THEN /\ resp' = Response("upload", 0, 400,
                                  [detail |-> "Unsupported audio format"])
              /\ UNCHANGED <<API_KEY, now, jobVars, voiceVars, fsVars, videoVars>>
         ELSE LET voice_id == VoiceUuid(uploads + 1)
                  safe_filename == Append(voice_id, Extension(name)) IN
              /\ voices' = voices \cup {safe_filename}
              /\ uploads' = uploads + 1
              /\ resp' = Response("upload", 0, 200,
                                  [voice_id |-> voice_id, filename |-> name])
              /\ UNCHANGED <<API_KEY, now, jobVars, fsVars, videoVars>>)

\* ---- DELETE /voices/{voice_id} -----------------------------------------
\* The first match in os.listdir order is removed; that order is arbitrary.
delete_voice_sample(h, voice_id) ==
    Depends("delete", 0, h,
      LET matches == {f \in voices : StartsWith(f, voice_id)} IN
      IF matches = {}
      THEN /\ resp' = Response("delete", 0, 404,
                               [detail |-> "Voice ID not found"])
           /\ UNCHANGED <<API_KEY, now, jobVars, voiceVars, fsVars, videoVars>>
      ELSE \E target \in matches :
           /\ voices' = voices \ {target}
           /\ resp' = Response("delete", 0, 200, [voice_id |-> voice_id])
           /\ UNCHANGED <<API_KEY, uploads, now, jobVars, fsVars, videoVars>>)

\* ---- _schedule_folder_deletion._delete ---------------------------------
\* faulty variant: os.rmdir in place of shutil.rmtree, a folder that still
\* holds entries is left in place
TimerFire_Rmdir(t) ==
    /\ t \in timers
    /\ now >= t.due
    /\ timers' = timers \ {t}
    /\ IF /\ t.folder \in dirs
          /\ \A f \in files : ~StartsWith(f, t.folder)
          /\ \A d \in dirs : StartsWith(d, t.folder) => d = t.folder
       THEN /\ dirs' = dirs \ {t.folder}
            /\ files' = files
       ELSE UNCHANGED fsVars
    /\ overtaken' = [f \in DOMAIN overtaken \cap files' |-> overtaken[f]]
    /\ UNCHANGED <<API_KEY, now, resp, jobVars, voiceVars, inflight, requests,
                   concatAt>>

\* A started timer runs _delete once its delay has passed: the folder, if
\* it is still a directory, is removed with everything below it.
TimerFire(t) ==
    /\ t \in timers
    /\ now >= t.due
    /\ timers' = timers \ {t}
    /\ IF t.folder \in dirs
       THEN /\ dirs' = {d \in dirs : ~StartsWith(d, t.folder)}
            /\ files' = {f \in files : ~StartsWith(f, t.folder)}
       ELSE UNCHANGED fsVars
    /\ overtaken' = [f \in DOMAIN overtaken \cap files' |-> overtaken[f]]
    /\ UNCHANGED <<API_KEY, now, resp, jobVars, voiceVars, inflight, requests,
                   concatAt>>

\* ---- output tree helpers -----------------------------------------------
\* os.path.join(OUTPUT_DIR, project_folder)
ProjectPath(folder) ==
    IF folder = "" THEN OUTPUT_DIR ELSE Join(OUTPUT_DIR, folder)

\* os.makedirs(path, exist_ok=True): the directories it leaves in place
MakeDirs(path) == dirs \cup {SubSeq(path, 1, k) : k \in 1..Len(path)}

\* open(path, "wb") and the writers of the media libraries need the parent
ParentExists(path) == SubSeq(path, 1, Len(path) - 1) \in dirs

\* os.listdir(dir), files only
ListDir(dir) ==
    {f[Len(f)] : f \in {g \in files : Len(g) = Len(dir) + 1 /\ StartsWith(g, dir)}}

\* the extension of a name of SortedNames
Suffix(name) ==
    IF name \in {"w1.wav", "w2.wav", "w3.wav", "w4.wav"} THEN ".wav"
    ELSE ".mp4"

\* f.lower().endswith(VIDEO_EXTENSIONS)
IsVideo(name) == Suffix(name) \in VIDEO_EXTENSIONS

Rank(name) == CHOOSE i \in 1..Len(SortedNames) : SortedNames[i] = name

\* sorted(names)
RECURSIVE Sorted(_)
Sorted(names) ==
    IF names = {} THEN <<>>
    ELSE LET first == CHOOSE n \in names :
                         \A m \in names : Rank(n) <= Rank(m)
         IN  <<first>> \o Sorted(names \ {first})

\* f"{ulid.new()}.mp4" or f"{ulid.new()}_{url_basename}"
UlidName(u, url_basename) ==
    IF url_basename = "" THEN SortedNames[2 * u - 1] ELSE SortedNames[2 * u]

\* ulid.new() at the current time: the time stamp read from the wall
\* clock, then random characters drawn afresh by every call (Ulids lists
\* two random parts for each reading of the clock; calls between two
\* ticks read the same time stamp, as calls do when the wall clock is
\* stepped back between them)
NewUlids == {u \in 1..Len(Ulids) : (u - 1) \div 2 = now \div Day + 1}

\* a ULID drawn now differs from every ULID in the name of a file in place
\* or of a file about to be written
Fresh(u) ==
    LET named == {UlidName(u, b) : b \in Basenames \cup {""}} IN
    /\ \A f \in files : f[Len(f)] \notin named
    /\ \A o \in inflight : o.target[Len(o.target)] \notin named

\* f"{req.project_folder}_final.mp4"
FinalName(folder) == IF folder = "" THEN "_final.mp4" ELSE "p_final.mp4"

Op(id, kind, pc, folder, target, srcs) ==
    [id |-> id, kind |-> kind, pc |-> pc, folder |-> folder,
     target |-> target, srcs |-> srcs]

\* the names of the files of dir written by downloads: those that start
\* with a ULID
Downloaded(dir) == {n \in ListDir(dir) : Rank(n) <= 2 * Len(Ulids)}

\* history: the downloaded files of dir that sort after name
SortAfter(dir, name) == {n \in Downloaded(dir) : Rank(n) > Rank(name)}

\* ---- POST /videos/download ---------------------------------------------
\* Up to "await client.get(req.url)": the project directory is created and
\* the file name is fixed.
download_video(h, url_basename, folder) ==
    /\ requests.download < MaxDownloads
    /\ Depends("videos/download", 0, h,
         \E u \in NewUlids :
           LET project_path == ProjectPath(folder)
               file_path == Join(project_path, UlidName(u, url_basename)) IN
           /\ Fresh(u)
           /\ dirs' = MakeDirs(project_path)
           /\ inflight' = inflight \cup
                 {Op(requests.download + 1, "download", "fetching", folder,
                     file_path,
                     Sorted(SortAfter(project_path,
                                      UlidName(u, url_basename))))}
           /\ requests' = [requests EXCEPT !.download = @ + 1]
           /\ UNCHANGED <<API_KEY, now, resp, jobVars, voiceVars, files,
                          timers, concatAt, overtaken>>)

\* The remote server has answered or the request has failed: 502, or the
\* body is written to the file (the open fails if the directory is gone).
download_video_done(o) ==
    /\ o \in inflight
    /\ o.kind = "download"
    /\ inflight' = inflight \ {o}
    /\ \/ /\ resp' = Response("videos/download", 0, 502,
                              [detail |-> "Download failed"])
          /\ UNCHANGED <<files, overtaken>>
       \/ IF ParentExists(o.target)
          THEN /\ files' = files \cup {o.target}
               /\ overtaken' =
                     IF o.srcs = <<>> THEN overtaken
                     ELSE (o.target :> {o.srcs[i] : i \in 1..Len(o.srcs)})
                             @@ overtaken
               /\ resp' = Response("videos/download", 0, 200,
                                   [file_path |-> o.target])
          ELSE /\ resp' = Response("videos/download", 0, 500,
                                   [detail |-> "Internal Server Error"])
               /\ UNCHANGED <<files, overtaken>>
    /\ UNCHANGED <<API_KEY, now, jobVars, voiceVars, dirs, timers, requests,
                   concatAt>>

\* ---- POST /videos/concat -----------------------------------------------
\* Up to "await loop.run_in_executor(None, concat_videos, ...)".
concat_video_endpoint(h, folder) ==
    /\ requests.concat < MaxConcats
    /\ Depends("videos/concat", 0, h,
         IF ProjectPath(folder) \notin dirs
         THEN /\ resp' = Response("videos/concat", 0, 404,
                                  [detail |-> "Project folder not found"])
              /\ UNCHANGED <<API_KEY, now, jobVars, voiceVars, fsVars,
                             videoVars>>
         ELSE /\ inflight' = inflight \cup
                    {Op(requests.concat + 1, "concat", "listing", folder,
                        Join(OUTPUT_DIR, FinalName(folder)), <<>>)}
              /\ requests' = [requests EXCEPT !.concat = @ + 1]
              /\ UNCHANGED <<API_KEY, now, resp, jobVars, voiceVars, fsVars,
                             timers, concatAt, overtaken>>)

\* faulty variant: only an empty listing is refused
TooFew_OnlyEmpty(listing) == Len(listing) < 1

\* len(files) < 2
TooFew(listing) == Len(listing) < 2

\* concat_videos, first part: the sorted listing and the length check.
concat_videos_list(o) ==
    /\ o \in inflight
    /\ o.kind = "concat"
    /\ o.pc = "listing"
    /\ LET folder == ProjectPath(o.folder)
           listing == Sorted({f \in ListDir(folder) : IsVideo(f)}) IN
       IF folder \notin dirs
       THEN /\ inflight' = inflight \ {o}
            /\ resp' = Response("videos/concat", 0, 500,
                                [detail |-> "Concat failed"])
       ELSE IF TooFew(listing)
       THEN /\ inflight' = inflight \ {o}
            /\ resp' = Response("videos/concat", 0, 400,
                                [detail |-> "Need at least 2 video files"])
       ELSE /\ inflight' = (inflight \ {o}) \cup
                  {Op(o.id, "concat", "encoding", o.folder, o.target, listing)}
            /\ UNCHANGED resp
    /\ UNCHANGED <<API_KEY, now, jobVars, voiceVars, fsVars, timers, requests,
                   concatAt, overtaken>>

\* faulty variant: no timer is started for a folder that already has one
_schedule_folder_deletion_Once(id, folder, delay) ==
    IF \E t \in timers : t.folder = folder
    THEN timers
    ELSE timers \cup {[id |-> id, folder |-> folder, due |-> now + delay]}

\* threading.Timer(delay_seconds, _delete).start()
_schedule_folder_deletion(id, folder, delay) ==
    timers \cup {[id |-> id, folder |-> folder, due |-> now + delay]}

\* concat_videos, second part: the clips are opened and joined, the output
\* is written, the deletion of the folder is scheduled; then the endpoint
\* answers.  Any failure (a listed file is gone, the output cannot be
\* written, the media library raises) ends the call with 500 and schedules
\* nothing.
concat_videos_write(o) ==
    /\ o \in inflight
    /\ o.kind = "concat"
    /\ o.pc = "encoding"
    /\ inflight' = inflight \ {o}
    /\ LET folder == ProjectPath(o.folder) IN
       \/ /\ \A i \in 1..Len(o.srcs) : Join(folder, o.srcs[i]) \in files
          /\ ParentExists(o.target)
          /\ files' = files \cup {o.target}
          /\ timers' = _schedule_folder_deletion(o.id, folder, delay_seconds)
          /\ concatAt' = [concatAt EXCEPT ![o.folder] = now]
          /\ resp' = Response("videos/concat", 0, 200,
                              [file_path |-> o.target])
       \/ /\ resp' = Response("videos/concat", 0, 500,
                              [detail |-> "Concat failed"])
          /\ UNCHANGED <<files, timers, concatAt>>
    /\ UNCHANGED <<API_KEY, now, jobVars, voiceVars, dirs, requests,
                   overtaken>>

\* ---- POST /videos/merge ------------------------------------------------
\* Up to "await loop.run_in_executor(None, merge_video_audio, ...)": both
\* inputs must be files, the output gets a fresh ULID name in
\* FINAL_OUTPUT_DIR.
merge_video_audio_endpoint(h, video, audio) ==
    /\ requests.merge < MaxMerges
    /\ Depends("videos/merge", 0, h,
         IF Join(OUTPUT_DIR, video) \notin files
         THEN /\ resp' = Response("videos/merge", 0, 404,
                                  [detail |-> "Video file not found"])
              /\ UNCHANGED <<API_KEY, now, jobVars, voiceVars, fsVars,
                             videoVars>>
         ELSE IF Join(OUTPUT_DIR, audio) \notin files
         THEN /\ resp' = Response("videos/merge", 0, 404,
                                  [detail |-> "Audio file not found"])
              /\ UNCHANGED <<API_KEY, now, jobVars, voiceVars, fsVars,
                             videoVars>>
         ELSE \E u \in NewUlids :
                LET output_path == Join(FINAL_OUTPUT_DIR, UlidName(u, "")) IN
                /\ Fresh(u)
                /\ inflight' = inflight \cup
                      {Op(requests.merge + 1, "merge", "merging", "",
                          output_path, <<video, audio>>)}
                /\ requests' = [requests EXCEPT !.merge = @ + 1]
                /\ UNCHANGED <<API_KEY, now, resp, jobVars, voiceVars, fsVars,
                               timers, concatAt, overtaken>>)

\* merge_video_audio on an executor thread, then the answer of the
\* endpoint: both clips are opened and the output is written, or the call
\* ends with 500 (an input is gone, the output cannot be written, the
\* media library raises).
merge_video_audio(o) ==
    /\ o \in inflight
    /\ o.kind = "merge"
    /\ inflight' = inflight \ {o}
    /\ \/ /\ \A i \in 1..Len(o.srcs) : Join(OUTPUT_DIR, o.srcs[i]) \in files
          /\ ParentExists(o.target)
          /\ files' = files \cup {o.target}
          /\ resp' = Response("videos/merge", 0, 200,
                              [file_path |-> o.target])
       \/ /\ resp' = Response("videos/merge", 0, 500,
                              [detail |-> "Merge failed"])
          /\ UNCHANGED files
    /\ UNCHANGED <<API_KEY, now, jobVars, voiceVars, dirs, timers, requests,
                   concatAt, overtaken>>

\* ---- time --------------------------------------------------------------
Tick ==
    /\ now < MaxDays * Day
    /\ now' = now + Day
    /\ UNCHANGED <<API_KEY, resp, jobVars, voiceVars, fsVars, videoVars>>

\* ---- the text-to-speech job subsystem ----------------------------------
InitCommon ==
    /\ API_KEY \in {None, "secret"}
    /\ JOBS = <<>>
    /\ tasks = <<>>
    /\ inference_lock = [locked |-> FALSE, waiters |-> <<>>,
                         notified |-> FALSE]
    /\ voices = {}
    /\ uploads = 0
    /\ dirs = {VOICE_DIR, OUTPUT_DIR, FINAL_OUTPUT_DIR}
    /\ files = {}
    /\ now = 0
    /\ resp = Response("none", 0, 0, [detail |-> "none"])
    /\ hist = <<>>
    /\ inflight = {}
    /\ requests = [download |-> 0, concat |-> 0, merge |-> 0]
    /\ concatAt = [p \in Projects |-> -1]
    /\ overtaken = [f \in {} |-> {}]

\* The job subsystem is explored from start-up, with or without a deletion
\* timer already due on the output directory: POST /videos/concat with
\* project_folder "" schedules the deletion of os.path.join(OUTPUT_DIR, ""),
\* the output directory itself.
InitJobs ==
    /\ InitCommon
    /\ timers \in {{}, {[id |-> 0, folder |-> OUTPUT_DIR, due |-> 0]}}

NextJobs ==
    \/ \E h \in Headers, v \in VoiceIdInputs : generate_audio(h, v)
    \/ \E j \in TaskIds : TaskStart(j)
    \/ \E j \in TaskIds : TaskWake(j)
    \/ \E j \in TaskIds : generate_voice_clone(j)
    \/ \E j \in TaskIds : sf_write(j)
    \/ \E j \in TaskIds : TaskFinish(j)
    \/ \E h \in Headers, id \in TaskIds : get_task_status(h, id)
    \/ \E h \in Headers, id \in TaskIds : download_audio_endpoint(h, id)
    \/ \E h \in Headers, n \in UploadNames : upload_voice_sample(h, n)
    \/ \E h \in Headers, v \in VoiceIdInputs : delete_voice_sample(h, v)
    \/ \E t \in timers : TimerFire(t)

SpecJobs == InitJobs /\ [][NextJobs]_vars

\* The event loop runs every ready coroutine and the executor runs every
\* submitted call; every synthesis call returns or raises.
FairJobs ==
    \A j \in TaskIds :
        /\ WF_vars(TaskStart(j))
        /\ WF_vars(TaskWake(j))
        /\ WF_vars(generate_voice_clone(j))
        /\ WF_vars(sf_write(j))
        /\ WF_vars(TaskFinish(j))

\* The liveness of the worker is explored without the two read-only GET
\* endpoints, which write nothing the worker reads.
NextWorker ==
    \/ \E h \in Headers, v \in VoiceIdInputs : generate_audio(h, v)
    \/ \E j \in TaskIds : TaskStart(j)
    \/ \E j \in TaskIds : TaskWake(j)
    \/ \E j \in TaskIds : generate_voice_clone(j)
    \/ \E j \in TaskIds : sf_write(j)
    \/ \E j \in TaskIds : TaskFinish(j)
    \/ \E h \in Headers, n \in UploadNames : upload_voice_sample(h, n)
    \/ \E h \in Headers, v \in VoiceIdInputs : delete_voice_sample(h, v)
    \/ \E t \in timers : TimerFire(t)

FairSpecJobs == InitJobs /\ [][NextWorker]_vars /\ FairJobs

\* ---- the video pipeline and the deferred cleanup -----------------------
InitVideo ==
    /\ InitCommon
    /\ timers = {}

\* The process has been restarted: the output tree is on disk as the
\* earlier run left it, here with a project folder of two downloaded
\* videos; the timers of the earlier run are gone with its process.
InitRestart ==
    /\ API_KEY \in {None, "secret"}
    /\ JOBS = <<>>
    /\ tasks = <<>>
    /\ inference_lock = [locked |-> FALSE, waiters |-> <<>>,
                         notified |-> FALSE]
    /\ voices = {}
    /\ uploads = 0
    /\ dirs = {VOICE_DIR, OUTPUT_DIR, FINAL_OUTPUT_DIR, ProjectPath("p")}
    /\ files = {Join(ProjectPath("p"), UlidName(1, "a.mp4")),
                Join(ProjectPath("p"), UlidName(2, "a.mp4"))}
    /\ now = 0
    /\ resp = Response("none", 0, 0, [detail |-> "none"])
    /\ hist = <<>>
    /\ inflight = {}
    /\ requests = [download |-> 0, concat |-> 0, merge |-> 0]
    /\ concatAt = [p \in Projects |-> -1]
    /\ overtaken = [f \in {} |-> {}]
    /\ timers = {}

NextVideo ==
    \/ \E h \in Headers, b \in Basenames, p \in Projects :
          download_video(h, b, p)
    \/ \E o \in inflight : download_video_done(o)
    \/ \E h \in Headers, p \in Projects : concat_video_endpoint(h, p)
    \/ \E o \in inflight : concat_videos_list(o)
    \/ \E o \in inflight : concat_videos_write(o)
    \/ \E h \in Headers, v \in MergeVideos, a \in MergeAudios :
          merge_video_audio_endpoint(h, v, a)
    \/ \E o \in inflight : merge_video_audio(o)
    \/ \E t \in timers : TimerFire(t)
    \/ Tick

SpecVideo == InitVideo /\ [][NextVideo]_vars

\* The video pipeline of one project folder, from its downloads to the
\* deferred cleanup.
NextProject ==
    \/ \E h \in Headers, b \in Basenames : download_video(h, b, "p")
    \/ \E o \in inflight : download_video_done(o)
    \/ \E h \in Headers : concat_video_endpoint(h, "p")
    \/ \E o \in inflight : concat_videos_list(o)
    \/ \E o \in inflight : concat_videos_write(o)
    \/ \E t \in timers : TimerFire(t)
    \/ Tick

SpecProject == InitVideo /\ [][NextProject]_vars

\* The deferred cleanup is followed to its end for the calls of an
\* authorised client on one project folder.
NextCleanup ==
    \/ \E b \in Basenames : download_video("secret", b, "p")
    \/ \E o \in inflight : download_video_done(o)
    \/ concat_video_endpoint("secret", "p")
    \/ \E o \in inflight : concat_videos_list(o)
    \/ \E o \in inflight : concat_videos_write(o)
    \/ \E t \in timers : TimerFire(t)
    \/ Tick

\* The process keeps running: time passes and a timer whose delay has
\* passed runs its function.
FairCleanup ==
    /\ WF_vars(Tick)
    /\ WF_vars(\E t \in timers : TimerFire(t))

FairSpecCleanup == InitVideo /\ [][NextCleanup]_vars /\ FairCleanup

SpecRestart == InitRestart /\ [][NextCleanup]_vars

\* every video endpoint, on both project folders, after a restart
SpecRestartVideo == InitRestart /\ [][NextVideo]_vars

\* ======================================================================
\* Properties
\* ======================================================================
Statuses == {"queued", "processing", "completed", "failed"}
Terminal == {"completed", "failed"}

\* the jobs whose coroutine is inside "async with inference_lock"
Holders ==
    {j \in DOMAIN tasks : tasks[j].pc \in {"synth", "write", "returned", "raised"}}

InProcessing == {j \in DOMAIN JOBS : JOBS[j].status = "processing"}

\* the statuses job j has had, in order
Path(j) == [i \in 1..Len(hist[j]) |-> hist[j][i].status]

\* p is a leading part of s (stated without str.startswith)
IsPrefix(p, s) == \E k \in 0..Len(s) : p = [i \in 1..k |-> s[i]]

IsPoll(r) == r.op = "status" /\ r.code = 200

\* C1: at most one job has status "processing" in any reachable state; a
\* job in "processing" is inside the locked section of inference_lock, so
\* it has left "processing" before the lock is released.
C1_AtMostOneProcessing ==
    /\ Cardinality(InProcessing) <= 1
    /\ \A j \in InProcessing : inference_lock.locked /\ j \in Holders

C1_Witness ==
    \E j, k \in DOMAIN JOBS :
        /\ JOBS[j].status = "processing"
        /\ tasks[k].pc = "waiting"
        /\ JOBS[k].status = "queued"

\* C2: the status of a job, in the store and as returned by GET /status, is
\* always one of queued, processing, completed, failed; once it is
\* completed or failed no step changes the job's status, filename or error.
C2_StatusDefinedAndTerminalFinal ==
    /\ [](\A j \in DOMAIN JOBS : JOBS[j].status \in Statuses)
    /\ [](IsPoll(resp) => resp.body.status \in Statuses)
    /\ [][\A j \in DOMAIN JOBS :
            JOBS[j].status \in Terminal => JOBS'[j] = JOBS[j]]_vars

C2_Witness ==
    /\ IsPoll(resp)
    /\ resp.body.status \in Terminal
    /\ JOBS[resp.req].status = resp.body.status
    /\ \E k \in DOMAIN JOBS : k # resp.req /\ k \in Holders

\* C3: a job whose voice id is not a prefix of any file name in the voice
\* directory when its worker starts goes from queued directly to failed
\* with error "Voice ID not found"; that step leaves inference_lock as it
\* is (no acquire, no wait), and such a job never had status "processing".
C3_UnknownVoiceFailsDirectly ==
    /\ [][\A j \in DOMAIN tasks :
            ( /\ tasks[j].pc = "scheduled"
              /\ tasks'[j].pc # "scheduled"
              /\ \A f \in voices : ~IsPrefix(tasks[j].voice_id, f) )
            => /\ JOBS[j].status = "queued"
               /\ JOBS'[j] = [status |-> "failed", filename |-> None,
                              error |-> "Voice ID not found"]
               /\ tasks'[j].pc = "done"
               /\ inference_lock' = inference_lock]_vars
    /\ [](\A j \in DOMAIN JOBS :
            JOBS[j].error = "Voice ID not found"
            => Path(j) = <<"queued", "failed">>)

C3_Witness ==
    \E j, k \in DOMAIN JOBS :
        /\ JOBS[j].error = "Voice ID not found"
        /\ Len(hist[j]) = 2
        /\ hist[j][2].locked
        /\ k \in Holders
        /\ voices # {}

\* C4: the lock is released on every exit from the synthesis step: a step
\* that takes a lock holder to its end (completed or failed, the failure
\* raised by the synthesis call or by the file write) leaves the lock
\* unlocked and wakes the first waiter; the lock is never held without a
\* live holder, and waiters always have a holder or a wake-up pending.
C4_LockReleasedOnEveryExit ==
    /\ [][\A j \in DOMAIN tasks :
            (j \in Holders /\ tasks'[j].pc = "done")
            => /\ JOBS'[j].status \in Terminal
               /\ ~inference_lock'.locked
               /\ inference_lock'.waiters # <<>> => inference_lock'.notified]_vars
    /\ [](inference_lock.locked => Holders # {})
    /\ [](inference_lock.waiters # <<>>
            => inference_lock.locked \/ inference_lock.notified)

C4_Witness ==
    \E j \in DOMAIN JOBS :
        /\ JOBS[j].error = WriteError
        /\ ~inference_lock.locked
        /\ inference_lock.notified

Edges ==
    {<<"queued", "processing">>, <<"processing", "completed">>,
     <<"processing", "failed">>, <<"queued", "failed">>}

C6_StatusOrder ==
    /\ [][\A j \in DOMAIN JOBS :
            JOBS'[j].status # JOBS[j].status
            => /\ <<JOBS[j].status, JOBS'[j].status>> \in Edges
               /\ JOBS[j].status = "queued" /\ JOBS'[j].status = "failed"
                     => JOBS'[j].error = "Voice ID not found"]_vars
    /\ [](\A j \in DOMAIN JOBS :
            /\ Path(j) \in {<<"queued">>, <<"queued", "processing">>,
                            <<"queued", "processing", "completed">>,
                            <<"queued", "processing", "failed">>,
                            <<"queued", "failed">>}
            /\ Path(j)[Len(hist[j])] = JOBS[j].status)

C6_Witness ==
    /\ IsPoll(resp)
    /\ resp.body.status = "processing"
    /\ JOBS[resp.req].status = "completed"

\* C7: in every state a poll can observe, a job's filename is set exactly
\* when its status is completed and its error exactly when it is failed;
\* the same holds of the file_path and error of a GET /status response.
C7_FilenameAndErrorGatedByStatus ==
    /\ \A j \in DOMAIN JOBS :
          /\ JOBS[j].filename # None <=> JOBS[j].status = "completed"
          /\ JOBS[j].error # None <=> JOBS[j].status = "failed"
    /\ IsPoll(resp)
       => /\ resp.body.file_path # <<>> <=> resp.body.status = "completed"
          /\ resp.body.error # None <=> resp.body.status = "failed"

C7_Witness ==
    /\ IsPoll(resp)
    /\ resp.body.file_path # <<>>
    /\ \E k \in DOMAIN JOBS : JOBS[k].status = "failed"

\* C8: POST /generate stores the job as queued in the step that returns
\* the response, with the worker not yet started and the lock untouched; it
\* can be taken in every state, also while a job is in "processing"; the
\* id it returned is in the store from then on (a poll never gets 404).
C8_SubmitIsSynchronousAndNonBlocking ==
    /\ [][DOMAIN JOBS' # DOMAIN JOBS
            => \E id \in DOMAIN JOBS' \ DOMAIN JOBS :
                 /\ DOMAIN JOBS' = DOMAIN JOBS \cup {id}
                 /\ JOBS'[id] = [status |-> "queued", filename |-> None,
                                 error |-> None]
                 /\ tasks'[id].pc = "scheduled"
                 /\ inference_lock' = inference_lock
                 /\ resp'.op = "generate" /\ resp'.code = 200
                 /\ resp'.body = [task_id |-> id, status |-> "queued"]]_vars
    /\ []((API_KEY = "secret" /\ Cardinality(DOMAIN JOBS) < MaxJobs)
            => \A v \in VoiceIdInputs : ENABLED generate_audio("secret", v))
    /\ []((resp.op = "generate" /\ resp.code = 200)
            => resp.body.task_id \in DOMAIN JOBS)

C8_Witness ==
    /\ resp.op = "generate"
    /\ resp.code = 200
    /\ tasks[resp.body.task_id].pc = "scheduled"
    /\ hist[resp.body.task_id][1].locked
    /\ InProcessing # {}

\* C9: GET /download/{task_id} with a valid key answers 404 for an unknown
\* id, 400 for a job that is queued, processing or failed, 404 for a
\* completed job whose file is not on disk, and 200 only for a completed
\* job whose file is there; it changes no job record.
C9_DownloadOnlyWhenCompleted ==
    [][(resp' # resp /\ resp'.op = "download")
        => LET id == resp'.req
               code == resp'.code
           IN  /\ JOBS' = JOBS
               /\ code \in {200, 400, 404, 403, 500}
               /\ code = 200
                    => /\ id \in DOMAIN JOBS
                       /\ JOBS[id].status = "completed"
                       /\ <<"output", JOBS[id].filename>> \in files
               /\ code \in {200, 400, 404}
                    => /\ id \notin DOMAIN JOBS => code = 404
                       /\ (id \in DOMAIN JOBS
                           /\ JOBS[id].status # "completed") => code = 400
                       /\ (id \in DOMAIN JOBS
                           /\ JOBS[id].status = "completed"
                           /\ <<"output", JOBS[id].filename>> \notin files)
                             => code = 404]_vars

C9_Witness ==
    /\ resp.op = "download"
    /\ resp.code = 404
    /\ resp.req \in DOMAIN JOBS
    /\ JOBS[resp.req].status = "completed"

\* C10: after a successful concat of a project directory, the directory
\* is not deleted until the retention window, measured from that concat,
\* has elapsed: a step that removes the directory of a folder whose latest
\* successful concat was at concatAt happens at concatAt + delay_seconds or
\* later.
C10_RetainedForFullWindow ==
    [][\A p \in Projects :
         ( /\ concatAt[p] >= 0
           /\ ProjectPath(p) \in dirs
           /\ ProjectPath(p) \notin dirs' )
         => now >= concatAt[p] + delay_seconds]_vars

\* C11: a successful concat returns while the timer it started is still
\* pending (the timer's due time is a full delay after the response), and
\* the project directory it was registered for is eventually absent: the
\* step on which a timer fires leaves its folder and everything below it
\* absent, and every registered timer that falls due within the explored
\* days leads to a state without the directory.
\* the step on which the concat call o ends with the given status code
ConcatEnds(o, code) ==
    /\ o \in inflight
    /\ o.kind = "concat"
    /\ \A q \in inflight' : q.kind = "concat" => q.id # o.id
    /\ resp'.op = "videos/concat"
    /\ resp'.code = code

C11_ReturnsAtOnce ==
    \A o \in inflight :
        ConcatEnds(o, 200)
        => \E t \in timers' \ timers :
              /\ t.folder = ProjectPath(o.folder)
              /\ t.due = now + delay_seconds
              /\ t.due > now'

C11_FiredLeavesAbsent ==
    \A t \in timers \ timers' :
        /\ now >= t.due
        /\ t.folder \notin dirs'
        /\ \A f \in files' : ~IsPrefix(t.folder, f)

C11_DirectoryEventuallyDeleted ==
    /\ [][C11_ReturnsAtOnce /\ C11_FiredLeavesAbsent]_vars
    /\ \A p \in Projects :
          (\E t \in timers : t.folder = ProjectPath(p) /\ t.due <= MaxDays * Day)
             ~> (ProjectPath(p) \notin dirs)

\* a timer of a concat has fired and the directory, which held the
\* downloaded sources, is gone while the concat output is kept
C11_Witness ==
    /\ concatAt["p"] >= 0
    /\ now >= concatAt["p"] + delay_seconds
    /\ timers = {}
    /\ ProjectPath("p") \notin dirs
    /\ Join(OUTPUT_DIR, FinalName("p")) \in files

\* C12: a concat that lists fewer than 2 files with a video extension in
\* an existing project directory ends with status 400, writes no file and
\* starts no timer; a concat that lists 2 or more is not refused by the
\* validation, and whenever a concat ends with status 200 its output is
\* present at OUTPUT_DIR/<project_folder>_final.mp4, joined from 2 or
\* more listed files.
VideoCount(folder) ==
    Cardinality({f \in files :
                   /\ Len(f) = Len(ProjectPath(folder)) + 1
                   /\ IsPrefix(ProjectPath(folder), f)
                   /\ IsVideo(f[Len(f)])})

\* the step on which concat_videos takes the listing for the call o
ConcatLists(o) ==
    /\ o \in inflight
    /\ o.kind = "concat"
    /\ o.pc = "listing"
    /\ o \notin inflight'

C12_TooFewIsRefused ==
    [][\A o \in inflight :
         /\ ( ConcatLists(o) /\ ProjectPath(o.folder) \in dirs
                => IF VideoCount(o.folder) < 2
                   THEN /\ ConcatEnds(o, 400)
                        /\ files' = files
                        /\ timers' = timers
                   ELSE \E q \in inflight' :
                          /\ q.kind = "concat" /\ q.id = o.id
                          /\ q.pc = "encoding"
                          /\ Len(q.srcs) = VideoCount(o.folder) )
         /\ ( ConcatEnds(o, 400) => timers' = timers /\ files' = files )
         /\ ( ConcatEnds(o, 200)
                => /\ Len(o.srcs) >= 2
                   /\ o.target = Join(OUTPUT_DIR, FinalName(o.folder))
                   /\ o.target \in files' )]_vars

\* a concat of a directory holding exactly one video file was refused
C12_Witness ==
    /\ resp.op = "videos/concat"
    /\ resp.code = 400
    /\ \E p \in Projects : ProjectPath(p) \in dirs /\ VideoCount(p) = 1

\* C13: the listing a concat joins holds exactly the files of the project
\* directory with a video extension, in ascending order of file name, and
\* for two listed files downloaded one after the other (the second
\* requested after the first had been written) the earlier download comes
\* first in the listing.
Position(seq, n) == CHOOSE i \in 1..Len(seq) : seq[i] = n

C13_ConcatOrderIsDownloadOrder ==
    [][\A o \in inflight : \A q \in inflight' :
         ( /\ ConcatLists(o)
           /\ q.kind = "concat" /\ q.id = o.id /\ q.pc = "encoding" )
         => LET folder == ProjectPath(o.folder)
                names == {q.srcs[i] : i \in 1..Len(q.srcs)} IN
            /\ names = {f[Len(f)] : f \in {g \in files :
                           /\ Len(g) = Len(folder) + 1
                           /\ IsPrefix(folder, g)
                           /\ Suffix(g[Len(g)]) \in VIDEO_EXTENSIONS}}
            /\ \A i, j \in 1..Len(q.srcs) :
                  i < j => Rank(q.srcs[i]) < Rank(q.srcs[j])
            /\ \A a, b \in names :
                  ( /\ Join(folder, b) \in DOMAIN overtaken
                    /\ a \in overtaken[Join(folder, b)] )
                  => Position(q.srcs, a) < Position(q.srcs, b)]_vars

\* C14: for any two downloads into the same project folder where the
\* second is requested after the first has returned, the name generated
\* for the second sorts strictly after the name of the first, and no
\* download writes over a file that an earlier download wrote.
C14_LaterDownloadSortsLater ==
    /\ [](\A f \in DOMAIN overtaken :
            \A n \in overtaken[f] : Rank(n) < Rank(f[Len(f)]))
    /\ [][\A o \in inflight \ inflight' :
            o.kind = "download" => (o.target \in files' => o.target \notin files)]_vars

\* C15: a call is admitted only if an API key is configured; with a key
\* configured, a call refused for its x-api-key header (absent or
\* different) gets an authorization failure (403); with no key configured
\* every call to every endpoint, whatever header it carries or lacks, is
\* answered 500; a refused call changes nothing but the response.
Refused(r) == "detail" \in DOMAIN r.body /\ r.body.detail = "rejected"

C15_AdmittedOnlyWithKey ==
    /\ [](resp.op # "none" =>
            /\ ~Refused(resp) => API_KEY # None
            /\ (Refused(resp) /\ API_KEY # None) => resp.code = 403
            /\ API_KEY = None => resp.code = 500)
    /\ [][Refused(resp') /\ resp' # resp
            => UNCHANGED <<API_KEY, now, jobVars, voiceVars, fsVars,
                           videoVars>>]_vars

\* C16 as stated: the lock is held only while the model call runs, so a
\* job whose output file is being written no longer keeps the lock from
\* the next job.
C16_WriteOutsideLock ==
    \A j \in DOMAIN tasks : tasks[j].pc = "write" => ~inference_lock.locked

\* C16, amended: the lock is held for the whole of clone_voice (the model
\* call and the writing of the output file) and until the result has been
\* recorded: from the moment a job is handed to the executor until its
\* coroutine records the outcome, the lock is held and no other job is
\* "processing"; the step that records "completed" or "failed" for a
\* processing job starts with the lock held.
C16_WriteInsideLock ==
    /\ [](\A j \in DOMAIN tasks :
            tasks[j].pc \in {"synth", "write", "returned", "raised"}
            => /\ inference_lock.locked
               /\ \A k \in DOMAIN JOBS :
                     k # j => JOBS[k].status # "processing")
    /\ [][\A j \in DOMAIN JOBS :
            ( /\ JOBS[j].status = "processing"
              /\ JOBS'[j].status \in {"completed", "failed"} )
            => inference_lock.locked]_vars

\* one job is writing its output file while another, still queued, waits
\* for the lock
C16_Witness ==
    \E j, k \in DOMAIN tasks :
        /\ tasks[j].pc = "write"
        /\ tasks[k].pc = "waiting"
        /\ JOBS[k].status = "queued"
        /\ inference_lock.locked

\* C17: no two operations in flight (synthesis, download, concat, merge)
\* have the same file as their write target, and no operation writes over
\* a file that an earlier operation produced.
Writing(o) == o.pc \in {"fetching", "encoding", "merging"}

C17_NoSharedWriteTarget ==
    /\ [](\A o, q \in inflight :
            (o # q /\ Writing(o) /\ Writing(q)) => o.target # q.target)
    /\ [](\A o \in inflight : \A j, k \in DOMAIN tasks :
            /\ tasks[j].pc \in {"synth", "write"}
                  => o.target # Join(OUTPUT_DIR, WavUuid[j])
            /\ j # k => WavUuid[j] # WavUuid[k])
    /\ [][\A o \in inflight :
            ( /\ \A q \in inflight' : q.kind = o.kind => q.id # o.id
              /\ resp'.code = 200
              /\ o.target \in files' )
            => o.target \notin files]_vars

\* C18: every successful concat starts one more timer of its own and
\* leaves the timers already started in place (k successful concats of a
\* directory, k timers); a timer is never cancelled: it leaves the set of
\* pending timers only by firing, when due, once, alone; a timer that
\* fires while its directory is absent changes nothing and answers
\* nothing; a timer that fires while its directory exists, also when the
\* directory was deleted before and re-created by a later download,
\* deletes it.
C18_Steps ==
    /\ \A o \in inflight :
          ConcatEnds(o, 200)
          => /\ timers \subseteq timers'
             /\ \E t \in timers' :
                   /\ timers' \ timers = {t}
                   /\ t.id = o.id
                   /\ t.folder = ProjectPath(o.folder)
    /\ \A t \in timers' \ timers :
          \E o \in inflight : ConcatEnds(o, 200) /\ t.id = o.id
    /\ \A t \in timers \ timers' :
          /\ now >= t.due
          /\ timers' = timers \ {t}
          /\ IF t.folder \in dirs
             THEN t.folder \notin dirs'
             ELSE dirs' = dirs /\ files' = files /\ resp' = resp

C18_TimersNeverMergedOrCancelled ==
    /\ [][C18_Steps]_vars
    /\ [](\A t, u \in timers : t.id = u.id => t = u)
    /\ [](\A t \in timers : \A o \in inflight :
            o.kind = "concat" => o.id # t.id /\ o.id <= requests.concat)

\* a concat has succeeded, its directory has been deleted by one timer and
\* re-created by a later download, and the timer of another concat of the
\* same directory is pending and due
C18_Witness ==
    /\ concatAt["p"] >= 0
    /\ ProjectPath("p") \in dirs
    /\ VideoCount("p") < 2
    /\ \E o \in inflight : o.kind = "download" /\ o.folder = "p"
    /\ \E t \in timers : t.folder = ProjectPath("p") /\ now >= t.due

\* C19: an id once in the job store stays in it; the record of a job
\* changes only on a step of that job's own background coroutine, and that
\* step leaves every other record as it was; a step that answers a
\* request (GET /status, GET /download, a submission) changes no record
\* that exists.
C19_RecordsIsolatedAndKept ==
    [][/\ DOMAIN JOBS \subseteq DOMAIN JOBS'
       /\ \A j \in DOMAIN JOBS :
             JOBS'[j] # JOBS[j]
             => /\ tasks'[j] # tasks[j]
                /\ resp' = resp
                /\ \A k \in DOMAIN JOBS \ {j} :
                      JOBS'[k] = JOBS[k] /\ tasks'[k] = tasks[k]
       /\ resp' # resp => \A j \in DOMAIN JOBS : JOBS'[j] = JOBS[j]]_vars

\* one job has been taken to its end while another is still queued, and a
\* poll has been answered
C19_Witness ==
    /\ IsPoll(resp)
    /\ \E i, j \in DOMAIN JOBS :
          /\ JOBS[i].status \in {"completed", "failed"}
          /\ JOBS[j].status = "queued"

\* C20: a project directory goes away only on the firing of a timer that a
\* successful concat of that very directory registered; a timer is
\* registered only by a concat that ends with 200, for the directory it
\* joined, so never by a download or a merge; a concat that ends with an
\* error registers nothing and leaves every file in place.
C20_DeletedOnlyByOwnTimer ==
    [][/\ \A p \in Projects :
             (ProjectPath(p) \in dirs /\ ProjectPath(p) \notin dirs')
             => \E t \in timers \ timers' : t.folder = ProjectPath(p)
       /\ \A t \in timers' \ timers :
             \E o \in inflight :
                /\ ConcatEnds(o, 200)
                /\ t.id = o.id
                /\ t.folder = ProjectPath(o.folder)
       /\ \A o \in inflight :
             (ConcatEnds(o, 400) \/ ConcatEnds(o, 500))
             => timers' = timers /\ files' = files /\ dirs' = dirs]_vars

====
